---------------------------- MODULE Spec2Model ----------------------------
(***************************************************************************)
(* libwget hash routines (libwget/hashfile.c): the algorithm registry      *)
(* (name -> identifier -> backend entry), the streaming digest handle of   *)
(* the four backend variants, and the file hashing functions               *)
(* wget_hash_file_fd / wget_hash_file_offset / wget_hash_file.             *)
(***************************************************************************)
EXTENDS Integers, Sequences, FiniteSets, TLC

(***************************************************************************)
(* Bounds of the model.                                                    *)
(***************************************************************************)
\* largest file size (bytes) that is explored
MaxFile == 3
\* largest value of the (scaled down) signed off_t; the smallest is -OFF_T_MAX-1
OFF_T_MAX == 3
\* page size of the (scaled down) mmap(): a file offset must be a multiple of it
PageSize == 2

\* sizeof(tmp), the chunk requested from read() on the fallback path
TmpSize == 65536

OFF_T_MIN == -OFF_T_MAX - 1
off_t == OFF_T_MIN..OFF_T_MAX

(***************************************************************************)
(* Strings: a C string is a record, either the NULL pointer or a sequence  *)
(* of one-character strings.                                               *)
(***************************************************************************)
NULL == [null |-> TRUE, chars |-> <<>>]
Str(s) == [null |-> FALSE, chars |-> s]

UpperCase == <<"A","B","C","D","E","F","G","H","I","J","K","L","M",
               "N","O","P","Q","R","S","T","U","V","W","X","Y","Z">>
LowerCase == <<"a","b","c","d","e","f","g","h","i","j","k","l","m",
               "n","o","p","q","r","s","t","u","v","w","x","y","z">>

\* c_tolower(): ASCII only
c_tolower(c) ==
    IF \E i \in 1..26 : UpperCase[i] = c
    THEN LowerCase[CHOOSE i \in 1..26 : UpperCase[i] = c]
    ELSE c

\* wget_strcasecmp_ascii(): 0 iff both strings are equal up to ASCII case
wget_strcasecmp_ascii(s1, s2) ==
    IF s1.null THEN (IF s2.null THEN 0 ELSE -1)
    ELSE IF s2.null THEN 1
    ELSE IF /\ Len(s1.chars) = Len(s2.chars)
            /\ \A i \in 1..Len(s1.chars) :
                   c_tolower(s1.chars[i]) = c_tolower(s2.chars[i])
         THEN 0
         ELSE 1

(***************************************************************************)
(* wget_digest_algorithm_t                                                 *)
(***************************************************************************)
WGET_DIGTYPE_UNKNOWN == 0
WGET_DIGTYPE_MD2 == 1
WGET_DIGTYPE_MD5 == 2
WGET_DIGTYPE_RMD160 == 3
WGET_DIGTYPE_SHA1 == 4
WGET_DIGTYPE_SHA224 == 5
WGET_DIGTYPE_SHA256 == 6
WGET_DIGTYPE_SHA384 == 7
WGET_DIGTYPE_SHA512 == 8

DigestTypes == WGET_DIGTYPE_UNKNOWN..WGET_DIGTYPE_SHA512

\* the identifiers a caller can pass: the enumerators and one value on
\* either side of them
AlgorithmArgs == (WGET_DIGTYPE_UNKNOWN - 1)..(WGET_DIGTYPE_SHA512 + 1)

\* the literals wget_hash_get_algorithm() compares with
s_sha_1 == Str(<<"s","h","a","-","1">>)
s_sha1 == Str(<<"s","h","a","1">>)
s_sha_256 == Str(<<"s","h","a","-","2","5","6">>)
s_sha256 == Str(<<"s","h","a","2","5","6">>)
s_sha_512 == Str(<<"s","h","a","-","5","1","2">>)
s_sha512 == Str(<<"s","h","a","5","1","2">>)
s_sha_224 == Str(<<"s","h","a","-","2","2","4">>)
s_sha224 == Str(<<"s","h","a","2","2","4">>)
s_sha_384 == Str(<<"s","h","a","-","3","8","4">>)
s_sha384 == Str(<<"s","h","a","3","8","4">>)
s_md5 == Str(<<"m","d","5">>)
s_md2 == Str(<<"m","d","2">>)
s_rmd160 == Str(<<"r","m","d","1","6","0">>)

\* a first character tested with == 's' only
get_algorithm_lower_s_only(hashname) ==
    IF hashname.null THEN WGET_DIGTYPE_UNKNOWN
    ELSE IF hashname.chars # <<>> /\ hashname.chars[1] = "s"
    THEN IF wget_strcasecmp_ascii(hashname, s_sha_1) = 0
            \/ wget_strcasecmp_ascii(hashname, s_sha1) = 0
         THEN WGET_DIGTYPE_SHA1
         ELSE IF wget_strcasecmp_ascii(hashname, s_sha_256) = 0
                 \/ wget_strcasecmp_ascii(hashname, s_sha256) = 0
         THEN WGET_DIGTYPE_SHA256
         ELSE IF wget_strcasecmp_ascii(hashname, s_sha_512) = 0
                 \/ wget_strcasecmp_ascii(hashname, s_sha512) = 0
         THEN WGET_DIGTYPE_SHA512
         ELSE IF wget_strcasecmp_ascii(hashname, s_sha_224) = 0
                 \/ wget_strcasecmp_ascii(hashname, s_sha224) = 0
         THEN WGET_DIGTYPE_SHA224
         ELSE IF wget_strcasecmp_ascii(hashname, s_sha_384) = 0
                 \/ wget_strcasecmp_ascii(hashname, s_sha384) = 0
         THEN WGET_DIGTYPE_SHA384
         ELSE WGET_DIGTYPE_UNKNOWN
    ELSE IF wget_strcasecmp_ascii(hashname, s_md5) = 0 THEN WGET_DIGTYPE_MD5
    ELSE IF wget_strcasecmp_ascii(hashname, s_md2) = 0 THEN WGET_DIGTYPE_MD2
    ELSE IF wget_strcasecmp_ascii(hashname, s_rmd160) = 0 THEN WGET_DIGTYPE_RMD160
    ELSE WGET_DIGTYPE_UNKNOWN

wget_hash_get_algorithm(hashname) ==
    IF hashname.null THEN WGET_DIGTYPE_UNKNOWN
    ELSE IF hashname.chars # <<>> /\ hashname.chars[1] \in {"s", "S"}
    THEN IF wget_strcasecmp_ascii(hashname, s_sha_1) = 0
            \/ wget_strcasecmp_ascii(hashname, s_sha1) = 0
         THEN WGET_DIGTYPE_SHA1
         ELSE IF wget_strcasecmp_ascii(hashname, s_sha_256) = 0
                 \/ wget_strcasecmp_ascii(hashname, s_sha256) = 0
         THEN WGET_DIGTYPE_SHA256
         ELSE IF wget_strcasecmp_ascii(hashname, s_sha_512) = 0
                 \/ wget_strcasecmp_ascii(hashname, s_sha512) = 0
         THEN WGET_DIGTYPE_SHA512
         ELSE IF wget_strcasecmp_ascii(hashname, s_sha_224) = 0
                 \/ wget_strcasecmp_ascii(hashname, s_sha224) = 0
         THEN WGET_DIGTYPE_SHA224
         ELSE IF wget_strcasecmp_ascii(hashname, s_sha_384) = 0
                 \/ wget_strcasecmp_ascii(hashname, s_sha384) = 0
         THEN WGET_DIGTYPE_SHA384
         ELSE WGET_DIGTYPE_UNKNOWN
    ELSE IF wget_strcasecmp_ascii(hashname, s_md5) = 0 THEN WGET_DIGTYPE_MD5
    ELSE IF wget_strcasecmp_ascii(hashname, s_md2) = 0 THEN WGET_DIGTYPE_MD2
    ELSE IF wget_strcasecmp_ascii(hashname, s_rmd160) = 0 THEN WGET_DIGTYPE_RMD160
    ELSE WGET_DIGTYPE_UNKNOWN


(***************************************************************************)
(* The build: which backend was compiled in.  For Nettle, nettle_defs is   *)
(* the set of identifiers whose table entry is guarded by an #ifdef that   *)
(* the installed Nettle headers satisfy.                                   *)
(***************************************************************************)
Backends == {"gnutls", "nettle", "gcrypt", "gnulib"}

NettleAlways == {WGET_DIGTYPE_MD2, WGET_DIGTYPE_MD5, WGET_DIGTYPE_SHA1}
NettleOptional == {WGET_DIGTYPE_RMD160, WGET_DIGTYPE_SHA224, WGET_DIGTYPE_SHA256,
                   WGET_DIGTYPE_SHA384, WGET_DIGTYPE_SHA512}

Build(b, defs) == [backend |-> b, nettle_defs |-> defs]

Builds ==
    {Build(b, {}) : b \in Backends \ {"nettle"}}
        \cup {Build("nettle", d) : d \in SUBSET NettleOptional}

SetMax(S) == CHOOSE m \in S : \A x \in S : x <= m

\* the identifiers that have a designated initializer in the backend's table
_gnutls_algorithm == DigestTypes
_nettle_algorithm(defs) == {WGET_DIGTYPE_UNKNOWN} \cup NettleAlways \cup defs
_gcrypt_algorithm == DigestTypes
_algorithm ==
    {WGET_DIGTYPE_MD2, WGET_DIGTYPE_MD5, WGET_DIGTYPE_SHA1, WGET_DIGTYPE_SHA224,
     WGET_DIGTYPE_SHA256, WGET_DIGTYPE_SHA384, WGET_DIGTYPE_SHA512}

\* countof(table): one more than the largest designated index
countof(build) ==
    CASE build.backend = "gnutls" -> SetMax(_gnutls_algorithm) + 1
      [] build.backend = "nettle" -> SetMax(_nettle_algorithm(build.nettle_defs)) + 1
      [] build.backend = "gcrypt" -> SetMax(_gcrypt_algorithm) + 1
      [] build.backend = "gnulib" -> SetMax(_algorithm) + 1

\* the table slot of `algorithm` holds a usable backend entry (for Nettle a
\* non-NULL nettle_hash, for gnulib a descriptor with ctx_len != 0, for
\* GnuTLS and gcrypt an algorithm number other than UNKNOWN / NONE)
HasEntry(build, algorithm) ==
    CASE build.backend = "gnutls" ->
            algorithm \in _gnutls_algorithm \ {WGET_DIGTYPE_UNKNOWN}
      [] build.backend = "nettle" ->
            algorithm \in NettleAlways \cup build.nettle_defs
      [] build.backend = "gcrypt" ->
            algorithm \in _gcrypt_algorithm \ {WGET_DIGTYPE_UNKNOWN}
      [] build.backend = "gnulib" -> algorithm \in _algorithm

\* digest length in bytes of each algorithm family
digest_size ==
    [a \in DigestTypes |->
        CASE a = WGET_DIGTYPE_UNKNOWN -> 0
          [] a \in {WGET_DIGTYPE_MD2, WGET_DIGTYPE_MD5} -> 16
          [] a \in {WGET_DIGTYPE_RMD160, WGET_DIGTYPE_SHA1} -> 20
          [] a = WGET_DIGTYPE_SHA224 -> 28
          [] a = WGET_DIGTYPE_SHA256 -> 32
          [] a = WGET_DIGTYPE_SHA384 -> 48
          [] a = WGET_DIGTYPE_SHA512 -> 64]

\* what a read through a NULL or uninitialised pointer can yield when the
\* process survives it
GarbageInts == {0, 1}

(***************************************************************************)
(* wget_hash_get_len: the set of outcomes [crash, ret].  More than one     *)
(* outcome means undefined behaviour in the C code.                        *)
(***************************************************************************)
LenOutcome(crash, r) == [crash |-> crash, ub |-> FALSE, ret |-> r]
\* an outcome of undefined behaviour
LenUB(crash, r) == [crash |-> crash, ub |-> TRUE, ret |-> r]

wget_hash_get_len(build, algorithm) ==
    IF algorithm >= 0 /\ algorithm < countof(build)
    THEN CASE build.backend = "gnutls" ->
                \* gnutls_hash_get_len(GNUTLS_DIG_UNKNOWN) is 0
                {LenOutcome(FALSE, digest_size[algorithm])}
           [] build.backend = "nettle" ->
                IF HasEntry(build, algorithm)
                THEN {LenOutcome(FALSE, digest_size[algorithm])}
                ELSE \* _nettle_algorithm[algorithm] is NULL: ->digest_size
                     {LenUB(TRUE, 0)} \cup {LenUB(FALSE, g) : g \in GarbageInts}
           [] build.backend = "gcrypt" ->
                \* gcry_md_get_algo_dlen(GCRY_MD_NONE) is 0
                {LenOutcome(FALSE, digest_size[algorithm])}
           [] build.backend = "gnulib" ->
                {LenOutcome(FALSE, IF algorithm \in _algorithm
                                   THEN digest_size[algorithm] ELSE 0)}
    ELSE {LenOutcome(FALSE, 0)}

(***************************************************************************)
(* The streaming handle wget_hash_hd_t.                                    *)
(*   st    "Uninit"  the automatic variable before wget_hash_init set it   *)
(*         "Ready"   initialised by the backend                            *)
(*         "Invalid" holds a NULL or garbage descriptor / context          *)
(*         "Final"   after wget_hash_deinit                                *)
(*   alg   the algorithm it was initialised with                           *)
(*   msg   the bytes absorbed so far, in call order                        *)
(*   owned it owns heap scratch state (xmalloc / gcry_md_open /            *)
(*         gnutls_hash_init) that has not been released                    *)
(***************************************************************************)
Handle(st, alg, msg, owned) == [st |-> st, alg |-> alg, msg |-> msg, owned |-> owned]
UninitHandle == Handle("Uninit", WGET_DIGTYPE_UNKNOWN, <<>>, FALSE)

\* an outcome of a handle operation: the process crashed, or the call
\* returned ret and left the handle h, with digest written to the caller
HdOutcome(crash, r, h, digest) ==
    [crash |-> crash, ub |-> FALSE, ret |-> r, h |-> h, digest |-> digest]
\* an outcome of undefined behaviour: the call went on (or crashed) after
\* dereferencing a NULL or uninitialised pointer
HdUB(r, h, digest) == [crash |-> FALSE, ub |-> TRUE, ret |-> r, h |-> h, digest |-> digest]
Crash(h) == [crash |-> TRUE, ub |-> TRUE, ret |-> -1, h |-> h, digest |-> <<>>]

\* the digest of msg under alg: the backend primitive, taken to be free of
\* collisions (distinct (alg, msg) give distinct byte strings)
Digest(alg, msg) == <<alg, Len(msg)>> \o msg

\* what an uninitialised digest buffer can hold
GarbageDigests == {<<222, 173>>}

wget_hash_init(build, dig, algorithm) ==
    CASE build.backend = "gnutls" ->
            IF algorithm >= 0 /\ algorithm < countof(build)
            THEN IF algorithm = WGET_DIGTYPE_UNKNOWN
                 THEN {HdOutcome(FALSE, -1, dig, <<>>)}
                 ELSE \* gnutls_hash_init() accepts the algorithm or rejects it
                      {HdOutcome(FALSE, 0, Handle("Ready", algorithm, <<>>, TRUE), <<>>),
                       HdOutcome(FALSE, -1, dig, <<>>)}
            ELSE {HdOutcome(FALSE, -1, dig, <<>>)}
      [] build.backend = "nettle" ->
            IF algorithm >= 0 /\ algorithm < countof(build)
            THEN IF HasEntry(build, algorithm)
                 THEN {HdOutcome(FALSE, 0, Handle("Ready", algorithm, <<>>, TRUE), <<>>)}
                 ELSE \* dig->hash is NULL: xmalloc(dig->hash->context_size),
                      \* dig->hash->init(...)
                      {Crash(dig),
                       HdUB(0, Handle("Invalid", algorithm, <<>>, TRUE), <<>>)}
            ELSE {HdOutcome(FALSE, -1, Handle("Invalid", algorithm, <<>>, FALSE), <<>>)}
      [] build.backend = "gcrypt" ->
            IF algorithm >= 0 /\ algorithm < countof(build)
            THEN \* the result of gcry_md_open() is not looked at
                 {HdOutcome(FALSE, 0, Handle("Ready", algorithm, <<>>, TRUE), <<>>)}
                    \cup (IF algorithm = WGET_DIGTYPE_UNKNOWN THEN {}
                          ELSE {HdOutcome(FALSE, 0,
                                          Handle("Invalid", algorithm, <<>>, FALSE), <<>>)})
            ELSE {HdOutcome(FALSE, -1, dig, <<>>)}
      [] build.backend = "gnulib" ->
            IF algorithm >= 0 /\ algorithm < countof(build) /\ algorithm \in _algorithm
            THEN {HdOutcome(FALSE, 0, Handle("Ready", algorithm, <<>>, TRUE), <<>>)}
            ELSE {HdOutcome(FALSE, -1, dig, <<>>)}

\* wget_hash(): absorb text.  On a handle that is not Ready the backend
\* dereferences a NULL or garbage pointer.
wget_hash(build, dig, text) ==
    IF dig.st = "Ready"
    THEN {HdOutcome(FALSE, 0, [dig EXCEPT !.msg = @ \o text], <<>>)}
    ELSE {Crash(dig), HdUB(0, dig, <<>>)}

\* wget_hash_deinit(): write the digest and release the scratch state
wget_hash_deinit(build, dig) ==
    IF dig.st = "Ready"
    THEN {HdOutcome(FALSE, 0, Handle("Final", dig.alg, dig.msg, FALSE),
                    Digest(dig.alg, dig.msg))}
    ELSE {Crash(dig)}
            \cup {HdUB(0, Handle("Final", dig.alg, dig.msg, FALSE), g) :
                      g \in GarbageDigests}

\* wget_hash_fast(): one-shot digest of text
wget_hash_fast(build, algorithm, text) ==
    IF build.backend = "gnutls"
    THEN IF algorithm >= 0 /\ algorithm < countof(build)
            /\ algorithm # WGET_DIGTYPE_UNKNOWN
         THEN \* gnutls_hash_fast() accepts the algorithm or rejects it
              {HdOutcome(FALSE, 0, UninitHandle, Digest(algorithm, text)),
               HdOutcome(FALSE, -1, UninitHandle, <<>>)}
         ELSE {HdOutcome(FALSE, -1, UninitHandle, <<>>)}
    ELSE UNION {
           IF i.crash THEN {i}
           ELSE IF i.ret # 0 THEN {HdOutcome(FALSE, -1, i.h, <<>>)}
           ELSE UNION {
                  IF u.crash THEN {u}
                  ELSE IF u.ret # 0 THEN {HdOutcome(FALSE, -1, u.h, <<>>)}
                  ELSE {[d EXCEPT !.ub = (@ \/ i.ub \/ u.ub)] :
                            d \in wget_hash_deinit(build, u.h)}
                  : u \in wget_hash(build, i.h, text)}
           : i \in wget_hash_init(build, UninitHandle, algorithm)}


(***************************************************************************)
(* wget_memtohex(): two lowercase hex characters per byte, cut so that the *)
(* string and its terminator fit dst_size; dst_size 0 leaves dst alone.    *)
(***************************************************************************)
HexDigits == <<"0","1","2","3","4","5","6","7","8","9","a","b","c","d","e","f">>

HexOf(src) ==
    [i \in 1..(2 * Len(src)) |->
        IF i % 2 = 1 THEN HexDigits[(src[(i + 1) \div 2] \div 16) + 1]
                     ELSE HexDigits[(src[i \div 2] % 16) + 1]]

Min(a, b) == IF a <= b THEN a ELSE b

wget_memtohex(src, dst, dst_size) ==
    IF dst_size = 0 THEN dst
    ELSE SubSeq(HexOf(src), 1, Min(2 * Len(src), dst_size - 1))

(***************************************************************************)
(* The file and the descriptor.                                            *)
(***************************************************************************)
\* the content of the file of n bytes: every position holds another byte
FileOfSize(n) == [i \in 1..n |-> (37 * i + 11) % 256]

\* read(fd, tmp, sizeof(tmp)) at file position pos: -1 on error, 0 at end of
\* file, else any count up to what is asked for and what is left
ReadOutcomes(f, pos) ==
    {-1} \cup (IF pos >= Len(f) THEN {0} ELSE 1..Min(TmpSize, Len(f) - pos))

\* mmap(NULL, len, PROT_READ, MAP_PRIVATE, fd, off) can succeed only for a
\* non-empty range at a page-aligned, non-negative offset that fits off_t;
\* it may fail whenever the system (or a build without HAVE_MMAP) says so
MmapOutcomes(off, len) ==
    IF off >= 0 /\ len > 0 /\ off % PageSize = 0 /\ off + len \in off_t
    THEN {TRUE, FALSE}
    ELSE {FALSE}

\* offset + length > st.st_size on signed off_t: the set of results the
\* comparison can have (both, when the addition overflows)
RangeCheckFails(off, len, st_size) ==
    IF off + len \in off_t THEN {off + len > st_size} ELSE {TRUE, FALSE}

(***************************************************************************)
(* State.                                                                  *)
(***************************************************************************)
VARIABLES
    build,          \* the compiled backend
    hashname,       \* argument hashname
    call,           \* the last registry / engine call made directly
    args,           \* entry point and the arguments fd, digest_hex_size, offset, length
    file,           \* content of the target file
    fdpos,          \* read position of the descriptor
    pc,             \* where the call is
    length,         \* local: remaining byte budget
    nbytes,         \* local: result of the last read()
    dig,            \* local: the streaming handle
    digest_len,     \* local: sizeof(digest)
    ret,            \* value returned to the caller
    digest_hex,     \* content of the caller's buffer
    fd_open,        \* the descriptor is open
    mapped,         \* a mapping of the file exists
    log             \* what the call did so far

vars == <<build, hashname, call, args, file, fdpos, pc, length, nbytes, dig,
          digest_len, ret, digest_hex, fd_open, mapped, log>>

NoCall == [fn |-> "none", algorithm |-> 0, crash |-> FALSE, ub |-> FALSE, ret |-> 0,
           st |-> "Uninit", owned |-> FALSE]

EmptyLog == [open_failed |-> FALSE, fd_calls |-> 0, range_ok |-> FALSE,
             mmap_calls |-> 0, munmap_calls |-> 0, read_calls |-> 0,
             read_neg |-> FALSE, short_reads |-> 0, init_calls |-> 0, init_ret |-> 0,
             hash_calls |-> 0, deinit_calls |-> 0, memtohex_calls |-> 0,
             close_calls |-> 0, misuse |-> FALSE, ub |-> FALSE, fast_owned |-> FALSE,
             path |-> "none"]

\* what the caller's buffer holds before the call
StaleHex == <<"?">>
DigestHexSizes == {0, 4, 64}

FileHashNames == {s_md5, s_rmd160, Str(<<"S","H","A","-","2","5","6">>),
                  Str(<<"c","r","c","3","2">>)}

FileBuilds ==
    {Build(b, {}) : b \in Backends \ {"nettle"}}
        \cup {Build("nettle", NettleOptional),
              Build("nettle", NettleOptional \ {WGET_DIGTYPE_RMD160})}

Args(entry, fd, size, off, len) ==
    [entry |-> entry, fd |-> fd, digest_hex_size |-> size, offset |-> off, length |-> len]

\* wget_hash_file passes offset 0 and length 0
EntryArgs ==
    {Args("wget_hash_file", "unopened", sz, 0, 0) : sz \in DigestHexSizes}
    \cup {Args("wget_hash_file_offset", "unopened", sz, o, l) :
            sz \in DigestHexSizes, o \in off_t, l \in off_t}
    \cup {Args("wget_hash_file_fd", f, sz, o, l) :
            f \in {"fd", "-1", "bad"}, sz \in DigestHexSizes, o \in off_t, l \in off_t}

Init ==
    /\ build \in FileBuilds
    /\ hashname \in FileHashNames
    /\ call = NoCall
    /\ args \in EntryArgs
    /\ file \in {FileOfSize(n) : n \in 0..MaxFile}
    /\ fdpos \in (IF args.fd = "fd" THEN 0..Len(file) ELSE {0})
    /\ pc = IF args.entry = "wget_hash_file_fd" THEN "fd_entry" ELSE "start"
    /\ length = 0
    /\ nbytes = 0
    /\ dig = UninitHandle
    /\ digest_len = 0
    /\ ret = 0
    /\ digest_hex = IF args.digest_hex_size = 0 THEN <<>> ELSE StaleHex
    /\ fd_open = (args.fd = "fd")
    /\ mapped = FALSE
    /\ log = EmptyLog

(***************************************************************************)
(* wget_hash_file_offset / wget_hash_file: open()                          *)
(***************************************************************************)
\* open() failure reported as an error
open_failed_returns_error(sz, hex) ==
    /\ pc' = "done"
    /\ ret' = -1
    /\ digest_hex' = IF sz # 0 THEN <<>> ELSE hex
    /\ log' = [log EXCEPT !.open_failed = TRUE]
    /\ UNCHANGED <<args, fd_open>>

open_failed(sz, hex) ==
    /\ pc' = "done"
    /\ ret' = 0
    /\ digest_hex' = IF sz # 0 THEN <<>> ELSE hex
    /\ log' = [log EXCEPT !.open_failed = TRUE]
    /\ UNCHANGED <<args, fd_open>>

wget_hash_file_offset_open ==
    /\ pc = "start"
    /\ \E ok \in BOOLEAN :
         IF ok
         THEN /\ args' = [args EXCEPT !.fd = "fd"]
              /\ fd_open' = TRUE
              /\ pc' = "fd_entry"
              /\ UNCHANGED <<ret, digest_hex, log>>
         ELSE open_failed(args.digest_hex_size, digest_hex)
    /\ UNCHANGED <<build, hashname, call, file, fdpos, length, nbytes, dig,
                   digest_len, mapped>>


(***************************************************************************)
(* wget_hash_file_fd                                                       *)
(***************************************************************************)
\* return r from wget_hash_file_fd: to the caller, or back into
\* wget_hash_file_offset
FdReturn(r, hex, lg) ==
    /\ ret' = r
    /\ digest_hex' = hex
    /\ log' = lg
    /\ pc' = IF args.entry = "wget_hash_file_fd" THEN "done" ELSE "fd_return"

\* the process died (SIGSEGV, SIGBUS, abort) inside the call
Crashed(lg) ==
    /\ pc' = "crashed"
    /\ log' = lg
    /\ UNCHANGED <<ret, digest_hex>>

\* unsigned char digest[n]: the n digest bytes the backend wrote
DigestBuf(digest, n) == IF n = 0 THEN <<>> ELSE digest

\* lines 530-531: length 0 stands for the size of the file
effective_length(len, st_size) == IF len = 0 THEN st_size ELSE len

\* the mapping is left in place when hashing it failed
mapped_after_hash_leaky(hash_ret) == hash_ret # 0

\* line 549: munmap() follows wget_hash_fast() whatever it returned
mapped_after_hash(hash_ret) == FALSE

\* lines 542-549: the mapped region is hashed in one call
mmap_path(algorithm, len, dlen, hex0, lg) ==
    \E o \in wget_hash_fast(build, algorithm,
                            SubSeq(file, args.offset + 1, args.offset + len)) :
        LET lg1 == [lg EXCEPT !.mmap_calls = @ + 1, !.path = "mmap",
                              !.fast_owned = o.h.owned, !.ub = (@ \/ o.ub)]
        IN IF o.crash
           THEN /\ Crashed(lg1)
                /\ mapped' = TRUE
                /\ UNCHANGED <<length, nbytes, dig, digest_len>>
           ELSE /\ FdReturn(IF o.ret = 0 THEN 0 ELSE -1,
                            IF o.ret = 0
                            THEN wget_memtohex(DigestBuf(o.digest, dlen), hex0,
                                               args.digest_hex_size)
                            ELSE hex0,
                            [lg1 EXCEPT !.munmap_calls = @ + 1,
                                        !.memtohex_calls =
                                            IF o.ret = 0 THEN @ + 1 ELSE @])
                /\ mapped' = mapped_after_hash(o.ret)
                /\ digest_len' = dlen
                /\ UNCHANGED <<length, nbytes, dig>>

\* lines 553-557: the fallback declares its locals and calls wget_hash_init,
\* whose result is not looked at
fallback_init(algorithm, len, dlen, hex0, lg) ==
    \E i \in wget_hash_init(build, UninitHandle, algorithm) :
        LET lg1 == [lg EXCEPT !.mmap_calls = @ + 1, !.path = "read",
                              !.init_calls = @ + 1, !.init_ret = i.ret,
                              !.ub = (@ \/ i.ub)]
        IN IF i.crash
           THEN /\ Crashed(lg1)
                /\ UNCHANGED <<length, nbytes, dig, digest_len, mapped>>
           ELSE /\ pc' = "loop"
                /\ dig' = i.h
                /\ length' = len
                /\ nbytes' = 0
                /\ digest_len' = dlen
                /\ digest_hex' = hex0
                /\ log' = lg1
                /\ UNCHANGED <<ret, mapped>>

\* lines 538-557
hash_range(len, hex0, lg) ==
    LET algorithm == wget_hash_get_algorithm(hashname)
    IN IF algorithm = WGET_DIGTYPE_UNKNOWN
       THEN /\ FdReturn(-1, hex0, lg)
            /\ UNCHANGED <<length, nbytes, dig, digest_len, mapped>>
       ELSE \E lo \in wget_hash_get_len(build, algorithm) :
              LET lg1 == [lg EXCEPT !.ub = (@ \/ lo.ub)]
              IN IF lo.crash
                 THEN /\ Crashed(lg1)
                      /\ UNCHANGED <<length, nbytes, dig, digest_len, mapped>>
                 ELSE \E m \in MmapOutcomes(args.offset, len) :
                        IF m THEN mmap_path(algorithm, len, lo.ret, hex0, lg1)
                             ELSE fallback_init(algorithm, len, lo.ret, hex0, lg1)

\* lines 518-557: from the entry to the return of the mmap path, or to the
\* head of the read loop
wget_hash_file_fd_enter ==
    /\ pc = "fd_entry"
    /\ LET hex0 == IF args.digest_hex_size # 0 THEN <<>> ELSE digest_hex
           lg0 == [log EXCEPT !.fd_calls = @ + 1]
       IN IF args.fd # "fd"
          THEN \* fd == -1 || fstat(fd, &st) != 0
               /\ FdReturn(-1, hex0, lg0)
               /\ UNCHANGED <<length, nbytes, dig, digest_len, mapped>>
          ELSE LET len == effective_length(args.length, Len(file))
               IN \E fails \in RangeCheckFails(args.offset, len, Len(file)) :
                    IF fails
                    THEN /\ FdReturn(-1, hex0, lg0)
                         /\ UNCHANGED <<length, nbytes, dig, digest_len, mapped>>
                    ELSE hash_range(len, hex0, [lg0 EXCEPT !.range_ok = TRUE])
    /\ UNCHANGED <<build, hashname, call, args, file, fdpos, fd_open>>

\* a short read taken for a failure
budget_after_short_is_error(len, n) == IF n < TmpSize THEN 0 ELSE len - n

\* lines 561-564
budget_after(len, n) == IF n <= len THEN len - n ELSE 0

\* lines 558-565: one evaluation of the loop condition with its read(), and
\* the loop body when the read returned data
wget_hash_file_fd_read ==
    /\ pc = "loop"
    /\ length > 0
    /\ \E n \in ReadOutcomes(file, fdpos) :
         LET lg1 == [log EXCEPT !.read_calls = @ + 1,
                                !.read_neg = (@ \/ n < 0),
                                !.short_reads = IF n > 0 /\ n < TmpSize THEN @ + 1 ELSE @]
         IN IF n > 0
            THEN \E u \in wget_hash(build, dig, SubSeq(file, fdpos + 1, fdpos + n)) :
                   LET lg2 == [lg1 EXCEPT !.hash_calls = @ + 1,
                                          !.misuse = (@ \/ dig.st # "Ready"),
                                          !.ub = (@ \/ u.ub)]
                   IN IF u.crash
                      THEN /\ pc' = "crashed"
                           /\ log' = lg2
                           /\ fdpos' = fdpos + n
                           /\ nbytes' = n
                           /\ UNCHANGED <<dig, length>>
                      ELSE /\ pc' = "loop"
                           /\ log' = lg2
                           /\ dig' = u.h
                           /\ fdpos' = fdpos + n
                           /\ nbytes' = n
                           /\ length' = budget_after(length, n)
            ELSE /\ pc' = "loop_exit"
                 /\ log' = lg1
                 /\ nbytes' = n
                 /\ UNCHANGED <<dig, length, fdpos>>
    /\ UNCHANGED <<build, hashname, call, args, file, digest_len, ret, digest_hex,
                   fd_open, mapped>>

\* the digest is hex-encoded although the last read failed
finish_ret_ignores_error(n) == 0

\* lines 568-575: the result of the fallback path
finish_ret(n) == IF n < 0 THEN -1 ELSE 0

\* lines 566-575: finalize, then report a read error or encode the digest
wget_hash_file_fd_finish ==
    /\ \/ pc = "loop" /\ length <= 0
       \/ pc = "loop_exit"
    /\ \E d \in wget_hash_deinit(build, dig) :
         LET lg1 == [log EXCEPT !.deinit_calls = @ + 1,
                                !.misuse = (@ \/ dig.st # "Ready"),
                                !.ub = (@ \/ d.ub)]
         IN IF d.crash
            THEN /\ Crashed(lg1)
                 /\ UNCHANGED <<dig, fd_open>>
            ELSE /\ dig' = d.h
                 /\ IF finish_ret(nbytes) < 0
                    THEN /\ fd_open' = FALSE
                         /\ FdReturn(-1, digest_hex,
                                     [lg1 EXCEPT !.close_calls = @ + 1])
                    ELSE /\ fd_open' = fd_open
                         /\ FdReturn(0,
                                     wget_memtohex(DigestBuf(d.digest, digest_len),
                                                   digest_hex, args.digest_hex_size),
                                     [lg1 EXCEPT !.memtohex_calls = @ + 1])
    /\ UNCHANGED <<build, hashname, call, args, file, fdpos, length, nbytes,
                   digest_len, mapped>>

\* line 610: close(fd) whatever wget_hash_file_fd returned
fd_open_after_offset(r) == FALSE

\* lines 609-612: back in wget_hash_file_offset
wget_hash_file_offset_close ==
    /\ pc = "fd_return"
    /\ fd_open' = (fd_open /\ fd_open_after_offset(ret))
    /\ log' = [log EXCEPT !.close_calls = @ + 1]
    /\ pc' = "done"
    /\ UNCHANGED <<build, hashname, call, args, file, fdpos, length, nbytes, dig,
                   digest_len, ret, digest_hex, mapped>>

Next ==
    \/ wget_hash_file_offset_open
    \/ wget_hash_file_fd_enter
    \/ wget_hash_file_fd_read
    \/ wget_hash_file_fd_finish
    \/ wget_hash_file_offset_close

Spec == Init /\ [][Next]_vars


(***************************************************************************)
(* The registry and the engine called directly: one call of                *)
(* wget_hash_get_algorithm, wget_hash_get_len or wget_hash_init.           *)
(***************************************************************************)
\* the upper-case and lower-case forms of a character
BothCases(c) ==
    {c} \cup {UpperCase[i] : i \in {j \in 1..26 : LowerCase[j] = c}}

RECURSIVE CaseVariants(_)
CaseVariants(s) ==
    IF s = <<>> THEN {<<>>}
    ELSE {<<c>> \o t : c \in BothCases(Head(s)), t \in CaseVariants(Tail(s))}

\* the table in the documentation of wget_hash_get_algorithm: spelling,
\* algorithm, constant
DocTable ==
    {<<s_sha1, "SHA1", WGET_DIGTYPE_SHA1>>, <<s_sha_1, "SHA1", WGET_DIGTYPE_SHA1>>,
     <<s_sha256, "SHA256", WGET_DIGTYPE_SHA256>>, <<s_sha_256, "SHA256", WGET_DIGTYPE_SHA256>>,
     <<s_sha512, "SHA512", WGET_DIGTYPE_SHA512>>, <<s_sha_512, "SHA512", WGET_DIGTYPE_SHA512>>,
     <<s_sha224, "SHA224", WGET_DIGTYPE_SHA224>>, <<s_sha_224, "SHA224", WGET_DIGTYPE_SHA224>>,
     <<s_sha384, "SHA384", WGET_DIGTYPE_SHA384>>, <<s_sha_384, "SHA384", WGET_DIGTYPE_SHA384>>,
     <<s_md5, "MD5", WGET_DIGTYPE_MD5>>,
     <<s_md2, "MD2", WGET_DIGTYPE_MD2>>,
     <<s_rmd160, "RMD160", WGET_DIGTYPE_RMD160>>}

RecognizedNames == UNION {{Str(v) : v \in CaseVariants(e[1].chars)} : e \in DocTable}

UnrecognizedNames ==
    {NULL, Str(<<>>), Str(<<"s">>), Str(<<"S","H","A">>), Str(<<"s","h","a","-">>),
     Str(<<"s","h","a","3">>), Str(<<"s","h","a","1","x">>), Str(<<"x","s","h","a","1">>),
     Str(<<"s","h","a","_","1">>), Str(<<"s","h","a","-","-","1">>),
     Str(<<"s","h","a","2","5","6"," ">>), Str(<<"s","m","d","5">>),
     Str(<<"m","d">>), Str(<<"m","d","4">>), Str(<<"M","D","-","5">>),
     Str(<<"r","m","d","-","1","6","0">>), Str(<<"c","r","c","3","2">>)}

RegistryNames == RecognizedNames \cup UnrecognizedNames

NoArgs == Args("none", "-1", 0, 0, 0)

InitRegistry ==
    /\ build \in Builds
    /\ hashname \in RegistryNames
    /\ call = NoCall
    /\ args = NoArgs
    /\ file = <<>>
    /\ fdpos = 0
    /\ pc = "idle"
    /\ length = 0
    /\ nbytes = 0
    /\ dig = UninitHandle
    /\ digest_len = 0
    /\ ret = 0
    /\ digest_hex = <<>>
    /\ fd_open = FALSE
    /\ mapped = FALSE
    /\ log = EmptyLog

FileState == <<args, file, fdpos, pc, length, nbytes, dig, digest_len, ret,
               digest_hex, fd_open, mapped, log>>

call_wget_hash_get_algorithm ==
    /\ call.fn = "none"
    /\ call' = [NoCall EXCEPT !.fn = "wget_hash_get_algorithm",
                              !.ret = wget_hash_get_algorithm(hashname)]
    /\ UNCHANGED <<build, hashname, FileState>>

call_wget_hash_get_len ==
    /\ call.fn = "none"
    /\ \E a \in AlgorithmArgs :
         \E o \in wget_hash_get_len(build, a) :
            call' = [NoCall EXCEPT !.fn = "wget_hash_get_len", !.algorithm = a,
                                   !.crash = o.crash, !.ub = o.ub, !.ret = o.ret]
    /\ UNCHANGED <<build, hashname, FileState>>

call_wget_hash_init ==
    /\ call.fn = "none"
    /\ \E a \in AlgorithmArgs :
         \E o \in wget_hash_init(build, UninitHandle, a) :
            call' = [fn |-> "wget_hash_init", algorithm |-> a, crash |-> o.crash,
                     ub |-> o.ub, ret |-> o.ret, st |-> o.h.st, owned |-> o.h.owned]
    /\ UNCHANGED <<build, hashname, FileState>>

NextRegistry ==
    \/ call_wget_hash_get_algorithm
    \/ call_wget_hash_get_len
    \/ call_wget_hash_init

SpecRegistry == InitRegistry /\ [][NextRegistry]_vars


(***************************************************************************)
(* Properties.                                                             *)
(***************************************************************************)
\* wget_hash_file_fd has returned (to its caller or into wget_hash_file_offset)
FdReturned == pc \in {"fd_return", "done"} /\ log.fd_calls = 1

\* the hex string of the digest of the file bytes [off, off + len)
HexOfRange(off, len) ==
    wget_memtohex(Digest(wget_hash_get_algorithm(hashname),
                         SubSeq(file, off + 1, off + len)),
                  <<>>, args.digest_hex_size)

\* a range inside the file, given without overflow and with length > 0
PlainRange ==
    /\ args.offset >= 0
    /\ args.length > 0
    /\ args.offset + args.length <= Len(file)

\* C1: for a range accepted by the bounds check the call yields the hex
\* digest of exactly the file bytes [offset, offset+length), on the mmap path
\* and on the read() fallback alike, wherever the descriptor's read position
\* is and however read() splits the data.  (Stated for plain ranges and for
\* calls free of undefined behaviour.)
C1_PathsHashTheRange ==
    (FdReturned /\ ret = 0 /\ PlainRange /\ ~log.ub)
        => digest_hex = HexOfRange(args.offset, args.length)

\* the backend has an entry for the algorithm and cannot refuse it at run time
SupportedName ==
    /\ HasEntry(build, wget_hash_get_algorithm(hashname))
    /\ build.backend \in {"nettle", "gnulib"}

\* C2: length == 0 means "rest of file": with 0 <= offset <= S and a supported
\* hash name the call succeeds and yields the digest of the bytes from offset
\* to the end of the file.  (Stated for calls that did not take the read()
\* fallback.)
C2_ZeroLengthIsRestOfFile ==
    (/\ FdReturned /\ args.fd = "fd" /\ args.length = 0
     /\ args.offset >= 0 /\ args.offset <= Len(file)
     /\ SupportedName /\ log.path # "read")
        => /\ ret = 0
           /\ digest_hex = HexOfRange(args.offset, Len(file) - args.offset)

\* the requested range reaches outside the file
RangeOutside ==
    IF args.length = 0 THEN args.offset > Len(file)
    ELSE args.offset + args.length > Len(file)

\* C3: a call whose range reaches outside the file (offset + length > S, over
\* the whole off_t domain) returns -1 without mapping or reading the file and
\* leaves digest_hex empty.
C3_OutsideRangeFails ==
    (log.fd_calls = 1 /\ args.fd = "fd" /\ RangeOutside)
        => /\ pc \in {"fd_return", "done"}
           /\ ret = -1
           /\ log.mmap_calls = 0
           /\ log.read_calls = 0
           /\ digest_hex = <<>>

\* C4 as stated: after a negative read() the call returns -1, no digest over
\* the incomplete data is finalized and digest_hex stays empty.
C4_NoFinalizeAfterReadError ==
    (FdReturned /\ log.read_neg)
        => /\ ret = -1
           /\ log.deinit_calls = 0
           /\ digest_hex = <<>>

\* C4 as amended: after a negative read() the call returns -1 and digest_hex
\* stays empty; wget_hash_deinit has run once (it is what releases the
\* handle), and the digest it wrote is never hex-encoded.
C4_ReadErrorFails ==
    (FdReturned /\ log.read_neg)
        => /\ ret = -1
           /\ log.deinit_calls = 1
           /\ log.memtohex_calls = 0
           /\ digest_hex = <<>>

C4_Witness ==
    /\ pc = "done" /\ log.read_neg /\ log.hash_calls >= 1
    /\ args.digest_hex_size > 0 /\ dig.st = "Final" /\ ~log.ub

\* C5: when the call returns, whatever it acquired is released: no mapping
\* and no scratch context are left by wget_hash_file_fd, and the descriptor
\* opened by wget_hash_file_offset is closed.
C5_ResourcesReleased ==
    /\ FdReturned => (~mapped /\ ~dig.owned /\ ~log.fast_owned)
    /\ (pc = "done" /\ args.entry # "wget_hash_file_fd") => ~fd_open

C5_Witness ==
    /\ pc = "done" /\ args.entry = "wget_hash_file_offset"
    /\ log.path = "mmap" /\ ret = -1 /\ log.munmap_calls = 1

\* the identifier is UNKNOWN, out of range or has no backend entry
Unsupported(algorithm) ==
    \/ algorithm = WGET_DIGTYPE_UNKNOWN
    \/ algorithm \notin DigestTypes
    \/ ~HasEntry(build, algorithm)

\* C6: in every backend variant wget_hash_init returns an error for UNKNOWN,
\* for an out-of-range identifier and for one without a backend entry,
\* allocating nothing and dereferencing no absent descriptor; and a call that
\* reports success leaves a Ready context.
C6_InitRejectsUnsupported ==
    call.fn = "wget_hash_init"
        => /\ Unsupported(call.algorithm)
                => (~call.ub /\ call.ret = -1 /\ ~call.owned /\ call.st # "Ready")
           /\ (~call.crash /\ call.ret = 0) => call.st = "Ready"

\* C7: wget_hash_get_algorithm returns UNKNOWN for every unrecognized, empty
\* or NULL name, and wget_hash_get_len returns 0 for UNKNOWN and for every
\* identifier without a backend entry, in every backend variant.
C7_UnknownAndZeroLength ==
    /\ (call.fn = "wget_hash_get_algorithm" /\ hashname \notin RecognizedNames)
            => call.ret = WGET_DIGTYPE_UNKNOWN
    /\ (call.fn = "wget_hash_get_len" /\ Unsupported(call.algorithm))
            => (~call.ub /\ call.ret = 0)

\* C8: every upper/lower-case variation of a recognized spelling resolves to
\* the constant the documentation table gives for it; the hyphenated and the
\* plain spelling of a SHA variant give the same constant, and two different
\* algorithms never share one.
C8_NameResolution ==
    /\ call.fn = "wget_hash_get_algorithm"
            => \A e \in DocTable :
                  (~hashname.null /\ hashname.chars \in CaseVariants(e[1].chars))
                      => call.ret = e[3]
    /\ \A e1, e2 \in DocTable : (e1[2] = e2[2]) <=> (e1[3] = e2[3])

C8_Witness ==
    /\ call.fn = "wget_hash_get_algorithm"
    /\ hashname = Str(<<"S","h","A","-","3","8","4">>)
    /\ call.ret = WGET_DIGTYPE_SHA384

\* C9: wget_hash_file / wget_hash_file_offset on a path that cannot be opened
\* return 0 with digest_hex empty, for any hash name, without calling
\* wget_hash_file_fd; wget_hash_file_fd given the descriptor -1 returns -1.
C9_OpenFailure ==
    /\ log.open_failed
            => (pc = "done" /\ ret = 0 /\ digest_hex = <<>> /\ log.fd_calls = 0)
    /\ (args.entry = "wget_hash_file_fd" /\ args.fd = "-1" /\ pc = "done")
            => ret = -1

C9_Witness ==
    /\ pc = "done" /\ log.open_failed /\ args.entry = "wget_hash_file"
    /\ args.digest_hex_size > 0
    /\ wget_hash_get_algorithm(hashname) = WGET_DIGTYPE_UNKNOWN

\* the byte budget the read loop starts with
InitialBudget == effective_length(args.length, Len(file))

\* one loop iteration whose read() returned data and whose body ran
ReadStep ==
    /\ pc = "loop" /\ pc' = "loop"
    /\ log'.read_calls = log.read_calls + 1

\* C10: on the fallback path a read() that returns fewer bytes than asked for
\* (but more than zero) is no error: the loop goes on, the budget strictly
\* decreases in every iteration (so the loop ends after at most as many
\* iterations as the initial budget), it ends once the budget is 0 or a read
\* returned 0 or less, and without a negative read the call returns success.
C10_ShortReads ==
    /\ [][ReadStep => /\ nbytes' > 0
                      /\ length' < length /\ length' >= 0
                      /\ (nbytes' < length => length' > 0)]_vars
    /\ [][(pc = "loop" /\ length <= 0) \/ pc = "loop_exit"
            => log'.read_calls = log.read_calls]_vars
    /\ [](pc = "loop_exit" => nbytes <= 0)
    /\ []((pc \in {"loop", "loop_exit"} /\ InitialBudget >= 0)
            => log.hash_calls + length <= InitialBudget)
    /\ []((FdReturned /\ log.path = "read" /\ ~log.read_neg) => ret = 0)

C10_Witness ==
    /\ pc = "done" /\ log.path = "read" /\ log.short_reads >= 2
    /\ ~log.read_neg /\ ~log.ub /\ ret = 0 /\ length = 0

\* wget_hash_init was called on the fallback path and reported an error
InitFailed == log.init_calls = 1 /\ log.init_ret # 0

\* C11: on the fallback path the handle goes init -> update* -> finalize:
\* wget_hash and wget_hash_deinit are called only after wget_hash_init
\* returned success, wget_hash_deinit exactly once per successfully
\* initialised handle of a call that returns; and when wget_hash_init fails
\* no update or finalize is made on the handle and the call returns -1.
C11_HandleLifecycle ==
    /\ (log.hash_calls > 0 \/ log.deinit_calls > 0)
            => (log.init_calls = 1 /\ log.init_ret = 0)
    /\ (FdReturned /\ log.init_calls = 1 /\ log.init_ret = 0)
            => log.deinit_calls = 1
    /\ InitFailed => (log.hash_calls = 0 /\ log.deinit_calls = 0 /\ ~log.misuse)
    /\ (FdReturned /\ InitFailed) => ret = -1

\* wget_hash_file_fd was given an open descriptor and has just returned
FdReturnedWithDescriptor ==
    /\ FdReturned /\ args.fd = "fd"
    /\ pc = "fd_return" \/ args.entry = "wget_hash_file_fd"

\* C12: wget_hash_file_fd never closes the descriptor it was given: on every
\* return, success or failure, the descriptor is still open and no close()
\* was made; so a call of wget_hash_file_offset / wget_hash_file that opened
\* the file closes the descriptor exactly once.  (Stated for calls free of
\* undefined behaviour.)
C12_DescriptorClosedOnce ==
    /\ (FdReturnedWithDescriptor /\ ~log.ub)
            => (fd_open /\ log.close_calls = 0)
    /\ (pc = "done" /\ args.entry # "wget_hash_file_fd" /\ log.fd_calls = 1
        /\ ~log.ub)
            => (~fd_open /\ log.close_calls = 1)

=============================================================================
